---- MODULE Spec2Model ----
(***************************************************************************)
(* The command/invoker core of tui-image-editor.                           *)
(*                                                                         *)
(* Invoker (invoker.js with execute/undo/redo) owns two stacks and a lock  *)
(* flag.  A command's forward/inverse action returns a promise; the        *)
(* promise callbacks of the invoker run later, as separate steps:          *)
(*   execute()/undo()/redo()   the synchronous part of the call            *)
(*   invokeExecutionSettled    the then/catch callbacks of _invokeExecution*)
(*   invokeUndoSettled         the then/catch callbacks of _invokeUndo     *)
(*   executeThen               the then callback attached by execute()     *)
(* Between these steps any other call may run (promise callbacks, event    *)
(* handlers), which is what the interleaving of the actions models.        *)
(***************************************************************************)
EXTENDS Integers, Sequences, FiniteSets, TLC

\* Number of command instances the factory creates in one run.
MaxCmds == 3

VARIABLES
    undoStack,   \* Invoker._undoStack: command instances, most recent last
    redoStack,   \* Invoker._redoStack
    isLocked,    \* Invoker._isLocked
    cmds,        \* the Command instances created so far (index = identity)
    inflight,    \* forward/inverse actions whose promise has not settled
    postQ,       \* pending then-callbacks attached by execute()
    graphics,    \* the collaborator: canvas objects, their properties, image
    last,        \* what the most recent step returned / settled with
    trace,       \* what the most recent step did, in order
    hist,        \* history bookkeeping: states after each executed command
    rt,          \* history bookkeeping: the latest execute/undo/redo round trip
    reported,    \* what a listener of the stack-changed events heard last
    completed,   \* history bookkeeping: completed and not yet undone commands
    editor       \* ImageEditor: the removal of an active group in progress

vars == <<undoStack, redoStack, isLocked, cmds, inflight, postQ, graphics,
          last, trace, hist, rt, reported, completed, editor>>

----------------------------------------------------------------------------
\* Faulty variant of rejectMessages: undo and redo messages swapped.
rejectMessages_swapped ==
    [isLock |-> {"isLock"}, undo |-> {"redo"}, redo |-> {"undo"}]

\* consts.rejectMessages: a rejection reason is the set of messages it joins.
rejectMessages ==
    [isLock |-> {"isLock"}, undo |-> {"undo"}, redo |-> {"redo"}]

\* Faulty variant of Because: the reason is left out.
Because_dropsReason(message, reason) == message

\* `${message} Because ${rejectMessages.isLock}`
Because(message, reason) == message \cup reason

\* Outcomes of a registered custom command's action (instance-independent).
Outcomes == {"resolve", "reject", "throw"}
NoValue == "undefined"

Ev(e, n) == [e |-> e, n |-> n]

\* The length carried by the last event e of tr, old if tr has none: what a
\* handler attached with invoker.on(e, ...) has seen last.
LastReported(tr, e, old) ==
    LET at == {i \in 1..Len(tr) : tr[i].e = e}
    IN  IF at = {} THEN old
        ELSE tr[CHOOSE i \in at : \A j \in at : j <= i].n

NotReported == -1

Ret(ev, op, cmd, out, why, val) ==
    [ev |-> ev, op |-> op, cmd |-> cmd, out |-> out, why |-> why, val |-> val]

\* Faulty variant of Pop: reads the last element without removing it.
Pop_keep(stack) == stack

\* Array.prototype.pop: the last element (0 stands for undefined) and the rest
Top(stack) == IF Len(stack) = 0 THEN 0 ELSE stack[Len(stack)]
Pop(stack) == IF Len(stack) = 0 THEN stack ELSE SubSeq(stack, 1, Len(stack) - 1)

\* Faulty variant of pushUndoStack: ignores isSilent.
pushUndoStack_loud(stack, command, isSilent) ==
    [stack |-> Append(stack, command),
     fired |-> <<Ev("undoStackChanged", Len(stack) + 1)>>]

\* Faulty variant of pushUndoStack: unshift instead of push.
pushUndoStack_front(stack, command, isSilent) ==
    [stack |-> <<command>> \o stack,
     fired |-> IF isSilent THEN <<>>
               ELSE <<Ev("undoStackChanged", Len(stack) + 1)>>]

\* Faulty variant of pushRedoStack: unshift instead of push.
pushRedoStack_front(stack, command, isSilent) ==
    [stack |-> <<command>> \o stack,
     fired |-> IF isSilent THEN <<>>
               ELSE <<Ev("redoStackChanged", Len(stack) + 1)>>]

\* Invoker.pushUndoStack / pushRedoStack: the stack and the events fired
pushUndoStack(stack, command, isSilent) ==
    [stack |-> Append(stack, command),
     fired |-> IF isSilent THEN <<>>
               ELSE <<Ev("undoStackChanged", Len(stack) + 1)>>]

pushRedoStack(stack, command, isSilent) ==
    [stack |-> Append(stack, command),
     fired |-> IF isSilent THEN <<>>
               ELSE <<Ev("redoStackChanged", Len(stack) + 1)>>]

\* Faulty variant of isEmptyUndoStack: never reports an empty stack.
isEmptyUndoStack_never(stack) == FALSE

isEmptyUndoStack(stack) == Len(stack) = 0
isEmptyRedoStack(stack) == Len(stack) = 0

\* Faulty variant of clearUndoStack: clears without firing.
clearUndoStack_silent(stack) == [stack |-> <<>>, fired |-> <<>>]

\* Invoker.clearUndoStack / clearRedoStack
clearUndoStack(stack) ==
    IF ~isEmptyUndoStack(stack)
    THEN [stack |-> <<>>, fired |-> <<Ev("undoStackChanged", 0)>>]
    ELSE [stack |-> stack, fired |-> <<>>]

\* Faulty variant of clearRedoStack: fires but keeps the entries.
clearRedoStack_keep(stack) ==
    IF ~isEmptyRedoStack(stack)
    THEN [stack |-> stack, fired |-> <<Ev("redoStackChanged", 0)>>]
    ELSE [stack |-> stack, fired |-> <<>>]

\* Faulty variant of clearRedoStack: fires even when nothing was cleared.
clearRedoStack_alwaysFires(stack) ==
    [stack |-> <<>>, fired |-> <<Ev("redoStackChanged", 0)>>]

clearRedoStack(stack) ==
    IF ~isEmptyRedoStack(stack)
    THEN [stack |-> <<>>, fired |-> <<Ev("redoStackChanged", 0)>>]
    ELSE [stack |-> stack, fired |-> <<>>]

----------------------------------------------------------------------------
(* The collaborator: Graphics and the fabric canvas it wraps.              *)
(* An object is its stamp (tui-code-snippet stamp(): a fresh number for    *)
(* every new object, kept for the object's life).  Positions (left/top)    *)
(* are floating-point geometry and are not part of the model.              *)

\* Number of fabric objects created in one run.
MaxObjs == 3

ObjIds == 1..MaxObjs
\* Ids a caller passes: the objects made so far in a run and a stale one.
ArgIds == 1..(MaxObjs - 1)
PropKeys == {"angle", "strokeWidth", "fill", "text"}

\* Values the scenarios draw arguments from.
InitAngles == {0, 300}
RotateArgs == {<<"setAngle", 100>>, <<"rotate", -90>>}
PropsArgs == {[k \in {"angle"} |-> 300], [k \in {"strokeWidth"} |-> 5]}
\* Color given to changeIconColor.
Colors == {"red"}
\* Texts and styles given to changeText and changeTextStyle.
Texts == {"new"}
StylesArgs == {[k \in {"fill"} |-> "red"]}

\* Faulty variant of JsRem: the remainder is never negative.
JsRem_floor(a, n) == a % n

\* The JavaScript % operator (the result has the sign of the dividend).
JsRem(a, n) == IF a >= 0 THEN a % n ELSE -((-a) % n)

InSeq(x, s) == \E i \in 1..Len(s) : s[i] = x

RECURSIVE RemoveFirst(_, _)
\* fabric canvas.remove(obj): drops the first occurrence found by indexOf
RemoveFirst(s, x) ==
    IF s = <<>> THEN <<>>
    ELSE IF Head(s) = x THEN Tail(s)
    ELSE <<Head(s)>> \o RemoveFirst(Tail(s), x)

\* obj.isType('cropzone'): g.cropzone is the object of that type, 0 when
\* none has been made.
isCropzone(g, obj) == obj # 0 /\ obj = g.cropzone

\* Graphics.contains / Graphics.getObject (0 stands for undefined):
\* _objects holds exactly the objects on the canvas (_onObjectAdded /
\* _onObjectRemoved keep it so), keyed by stamp; _onObjectAdded leaves a
\* cropzone out.
contains(g, target) == InSeq(target, g.canvas)
\* Faulty variant of getObject: every id resolves.
getObject_any(g, id) == id

getObject(g, id) ==
    IF InSeq(id, g.canvas) /\ ~isCropzone(g, id) THEN id ELSE 0

\* Graphics.add(objects): canvas.add(...objects)
add(g, objects) == [g EXCEPT !.canvas = g.canvas \o objects]

\* Graphics.remove(target)
remove(g, target) == [g EXCEPT !.canvas = RemoveFirst(g.canvas, target)]

\* Graphics.removeAll(): the canvas afterwards and the removed objects
removeAll(g) == [g |-> [g EXCEPT !.canvas = <<>>], objects |-> g.canvas]

RECURSIVE RemoveEach(_, _)
\* obj.remove() for every obj of objs, in order
RemoveEach(canvas, objs) ==
    IF objs = <<>> THEN canvas
    ELSE RemoveEach(RemoveFirst(canvas, Head(objs)), Tail(objs))

\* Graphics.removeObjectById(id): the children of a non-empty group are
\* collected and removed one by one (the group object itself stays); any
\* other target is removed if the canvas contains it.
removeObjectById(g, id) ==
    LET target == getObject(g, id)
        isValidGroup == target # 0 /\ g.members[target] # <<>>
    IN  IF isValidGroup
        THEN [g |-> [g EXCEPT !.canvas = RemoveEach(g.canvas, g.members[target])],
              objects |-> g.members[target]]
        ELSE IF target # 0 /\ contains(g, target)
        THEN [g |-> remove(g, target), objects |-> <<target>>]
        ELSE [g |-> g, objects |-> <<>>]

\* Graphics.setObjectProperties(id, props): object.set(clone)
setObjectProperties(g, id, props) ==
    [g EXCEPT !.props[id] =
        [k \in PropKeys |-> IF k \in DOMAIN props THEN props[k] ELSE @[k]]]

\* Graphics.addImageObject, when fabric.Image.fromURL has loaded the image:
\* a new fabric.Image, stamped on "object:added", is put on the canvas.
addImageObject(g) ==
    LET id == g.made + 1 IN
    [g |-> [g EXCEPT !.made = id, !.canvas = Append(g.canvas, id)], id |-> id]

\* Icon.getColor(obj) / Icon.setColor(color, obj): the fill of an icon
\* object; setColor without an object changes no object.
getColor(g, obj) == g.props[obj].fill
setColor(g, color, obj) ==
    IF obj = 0 THEN g ELSE [g EXCEPT !.props[obj].fill = color]

\* Text.getText(obj), Text.change(obj, text), Text.setStyle(obj, styles):
\* the text and the style properties of a text object
getText(g, obj) == g.props[obj].text
change(g, obj, text) == [g EXCEPT !.props[obj].text = text]
setStyle(g, obj, styles) == setObjectProperties(g, obj, styles)

\* The Cropzone instance of a cropping session: a canvas object of type
\* cropzone, which _onObjectAdded does not stamp.
NewCropzone == MaxObjs + 1

\* Faulty variant of Cropper.start: a cropzone is made even if one exists.
start_again(g) ==
    [g EXCEPT !.evented = [o \in ObjIds |-> IF InSeq(o, g.canvas) THEN FALSE
                                            ELSE @[o]],
              !.cropperCropzone = NewCropzone,
              !.cropzone = NewCropzone,
              !.canvas = Append(@, NewCropzone)]

\* Cropper.start(): nothing if there is a cropzone; otherwise evented is
\* switched off on every object of the canvas and a new cropzone is added.
start(g) ==
    IF g.cropperCropzone # 0 THEN g
    ELSE [g EXCEPT !.evented = [o \in ObjIds |-> IF InSeq(o, g.canvas) THEN FALSE
                                                 ELSE @[o]],
                   !.cropperCropzone = NewCropzone,
                   !.cropzone = NewCropzone,
                   !.canvas = Append(@, NewCropzone)]

\* Cropper.end(isApplying): without a cropzone null; otherwise the cropzone
\* leaves the canvas, evented is switched on on every object of the canvas
\* and the data of a valid cropzone is returned if isApplying.
end(g, isApplying, isValid) ==
    LET cropzone == g.cropperCropzone
        removed == remove(g, cropzone)
    IN  IF cropzone = 0 THEN [g |-> g, fired |-> <<>>, val |-> "null"]
        ELSE [g |-> [removed EXCEPT
                        !.evented = [o \in ObjIds |->
                                        IF InSeq(o, removed.canvas) THEN TRUE
                                        ELSE @[o]],
                        !.cropperCropzone = 0],
              fired |-> <<>>,
              val |-> IF ~isApplying THEN NoValue
                      ELSE IF isValid THEN "data" ELSE "null"]

\* consts.drawingModes, and the modes Graphics._createDrawingModeInstances
\* registers in _drawingModeMap.
drawingModes ==
    {"NORMAL", "CROPPER", "FREE_DRAWING", "LINE_DRAWING", "TEXT", "SHAPE"}
drawingModeMap == drawingModes \ {"NORMAL"}

\* DrawingMode.start(graphics) / end(graphics) of the instance of a mode:
\* each starts / ends its component; started holds the modes whose start
\* has run and whose end has not.
modeStart(g, mode) ==
    [(IF mode = "CROPPER" THEN start(g) ELSE g) EXCEPT !.started = @ \cup {mode}]
modeEnd(g, mode) ==
    [(IF mode = "CROPPER" THEN end(g, FALSE, FALSE).g ELSE g)
        EXCEPT !.started = @ \ {mode}]

\* Faulty variant of _isSameDrawingMode: no mode is the current one.
isSameDrawingMode_never(g, mode) == FALSE

\* Graphics._isSameDrawingMode(mode)
isSameDrawingMode(g, mode) == g.drawingMode = mode

\* Graphics.stopDrawingMode()
stopDrawingMode(g) ==
    IF isSameDrawingMode(g, "NORMAL")
    THEN [g |-> g, fired |-> <<>>, val |-> NoValue]
    ELSE [g |-> [modeEnd(g, g.drawingMode) EXCEPT !.drawingMode = "NORMAL"],
          fired |-> <<Ev("end", g.drawingMode)>>, val |-> NoValue]

\* Graphics.startDrawingMode(mode, option): true if the mode is registered
startDrawingMode(g, mode) ==
    LET stopped == stopDrawingMode(g) IN
    IF isSameDrawingMode(g, mode)
    THEN [g |-> g, fired |-> <<>>, val |-> "true"]
    ELSE IF mode \in drawingModeMap
    THEN [g |-> [modeStart(stopped.g, mode) EXCEPT !.drawingMode = mode],
          fired |-> stopped.fired \o <<Ev("start", mode)>>, val |-> "true"]
    ELSE [g |-> stopped.g, fired |-> stopped.fired, val |-> "false"]

\* Graphics.canvasImage when no image is set (null), and a loaded image:
\* its source and its angle (fabric.Image keeps the angle it was given).
NoImage == [src |-> 0, angle |-> 0, flipX |-> FALSE, flipY |-> FALSE]
Image(src) == [src |-> src, angle |-> 0, flipX |-> FALSE, flipY |-> FALSE]

\* Faulty variant of setCanvasImage: the name is not stored.
setCanvasImage_keepsName(g, name, canvasImage) ==
    [g EXCEPT !.canvasImage = canvasImage]

\* Graphics.setCanvasImage(name, canvasImage)
setCanvasImage(g, name, canvasImage) ==
    [g EXCEPT !.imageName = name, !.canvasImage = canvasImage]

\* Rotation.getCurrentAngle: this.getCanvasImage().angle
getCurrentAngle(g) == g.canvasImage.angle

\* Rotation._rotateForEachObject: every object on the canvas turns with the image
rotateForEachObject(g, angleDiff) ==
    [g EXCEPT !.props =
        [o \in ObjIds |->
            IF InSeq(o, g.canvas)
            THEN [g.props[o] EXCEPT !.angle = JsRem(@ + angleDiff, 360)]
            ELSE g.props[o]]]

\* Rotation.setAngle(angle): resolves with the normalised angle
setAngle(g, angle) ==
    LET oldAngle == JsRem(getCurrentAngle(g), 360)
        newAngle == JsRem(angle, 360)
    IN  [g |-> rotateForEachObject([g EXCEPT !.canvasImage.angle = newAngle],
                                   newAngle - oldAngle),
         val |-> newAngle]

\* Rotation.rotate(additionalAngle)
rotate(g, additionalAngle) == setAngle(g, getCurrentAngle(g) + additionalAngle)

\* Flip.getCurrentSetting: the flip setting of the canvas image
getCurrentSetting(g) ==
    [flipX |-> g.canvasImage.flipX, flipY |-> g.canvasImage.flipY]

\* Flip.set(newSetting): an unchanged setting is rejected; flipping about
\* one axis inverts the angle of the image.
set(g, newSetting) ==
    LET setting == getCurrentSetting(g)
        isChangingFlipX == setting.flipX # newSetting.flipX
        isChangingFlipY == setting.flipY # newSetting.flipY
    IN  IF ~isChangingFlipX /\ ~isChangingFlipY
        THEN [out |-> "reject", why |-> {"flip"}, g |-> g]
        ELSE [out |-> "resolve", why |-> {},
              g |-> [g EXCEPT !.canvasImage.flipX = newSetting.flipX,
                              !.canvasImage.flipY = newSetting.flipY,
                              !.canvasImage.angle =
                                  IF isChangingFlipX # isChangingFlipY
                                  THEN -@ ELSE @]]

\* Flip.reset / Flip.flipX / Flip.flipY
reset(g) == set(g, [flipX |-> FALSE, flipY |-> FALSE])
flipX(g) == set(g, [getCurrentSetting(g) EXCEPT !.flipX = ~@])
flipY(g) == set(g, [getCurrentSetting(g) EXCEPT !.flipY = ~@])

\* What an application can observe of the collaborator.
Obs(g) ==
    [objects |-> {g.canvas[i] : i \in 1..Len(g.canvas)},
     props |-> [o \in ObjIds |-> IF InSeq(o, g.canvas) THEN g.props[o]
                                 ELSE [k \in PropKeys |-> 0]],
     canvasImage |-> g.canvasImage,
     imageName |-> g.imageName]

----------------------------------------------------------------------------
(* Commands.  A Command instance carries name, args, the callback and its  *)
(* own undoData; res is the settlement of the action now in flight.        *)

NoUndoData ==
    [angle |-> 0, props |-> <<>>, objects |-> <<>>, object |-> 0,
     color |-> "", text |-> "", styles |-> <<>>, prevName |-> "", prevImage |-> NoImage,
     setting |-> [flipX |-> FALSE, flipY |-> FALSE]]
NoRes == [out |-> "none", val |-> NoValue, why |-> {}]

\* Command constructor (interface/command.js)
Command(name, args, cb) ==
    [name |-> name, args |-> args, cb |-> cb, undoData |-> NoUndoData,
     res |-> NoRes]

\* Faulty variant of creators: nothing is registered.
creators_none == {}

\* The command names the factory has a recipe for.
creators ==
    {"testCommand", "rotate", "flip", "setObjectProperties", "removeObject",
     "clearObjects", "addImageObject", "addObject", "loadImage",
     "changeIconColor", "changeText", "changeTextStyle"}

\* commandFactory.create(name, ...args): creators[name] of a name that is
\* not registered is undefined, and calling it throws
create(name, args, cb) ==
    [thrown |-> name \notin creators, command |-> Command(name, args, cb)]

Act(out, val, why, g, undoData) ==
    [out |-> out, val |-> val, why |-> why, g |-> g, undoData |-> undoData]

\* The custom command of the tests: execute()/undo() are stubs whose
\* result the test chooses.
testCommandAction(command, g, o) ==
    Act(o, IF o = "resolve" THEN command.name ELSE NoValue,
        IF o = "reject" THEN {"testReject"} ELSE {}, g, command.undoData)

\* createRotationImageCommand: execute; without a canvas image
\* getCurrentAngle reads a property of null (TypeError)
rotateExecute(command, g) ==
    LET type == command.args[1]
        angle == command.args[2]
        r == IF type = "rotate" THEN rotate(g, angle) ELSE setAngle(g, angle)
    IN  IF g.canvasImage = NoImage
        THEN Act("throw", NoValue, {}, g, command.undoData)
        ELSE Act("resolve", r.val, {}, r.g,
                 [command.undoData EXCEPT !.angle = getCurrentAngle(g)])

\* createFlipImageCommand: execute
flipExecute(command, g) ==
    LET type == command.args[1]
        r == CASE type = "flipX" -> flipX(g)
               [] type = "flipY" -> flipY(g)
               [] type = "reset" -> reset(g)
    IN  IF g.canvasImage = NoImage
        THEN Act("throw", NoValue, {}, g, command.undoData)
        ELSE Act(r.out, NoValue, r.why, r.g,
                 [command.undoData EXCEPT !.setting = getCurrentSetting(g)])

\* createFlipImageCommand: undo
flipUndo(command, g) ==
    LET r == set(g, command.undoData.setting)
    IN  IF g.canvasImage = NoImage
        THEN Act("throw", NoValue, {}, g, command.undoData)
        ELSE Act(r.out, NoValue, r.why, r.g, command.undoData)

\* Faulty variant of rotateUndo: turns back by the angle of the command.
rotateUndo_relative(command, g) ==
    LET r == rotate(g, -command.args[2])
    IN  IF g.canvasImage = NoImage
        THEN Act("throw", NoValue, {}, g, command.undoData)
        ELSE Act("resolve", r.val, {}, r.g, command.undoData)

\* createRotationImageCommand: undo
rotateUndo(command, g) ==
    LET r == setAngle(g, command.undoData.angle)
    IN  IF g.canvasImage = NoImage
        THEN Act("throw", NoValue, {}, g, command.undoData)
        ELSE Act("resolve", r.val, {}, r.g, command.undoData)

\* command/setObjectProperties.js: execute(graphics, id, props)
setObjectPropertiesExecute(command, g) ==
    LET id == command.args[1]
        props == command.args[2]
        targetObj == getObject(g, id)
    IN  IF targetObj = 0
        THEN Act("reject", NoValue, {"noObject"}, g, command.undoData)
        ELSE Act("resolve", NoValue, {}, setObjectProperties(g, id, props),
                 [command.undoData EXCEPT
                     !.props = [k \in DOMAIN props |-> g.props[targetObj][k]]])

\* command/setObjectProperties.js: undo(graphics, id); object.set on an
\* id that getObject does not resolve is a TypeError
setObjectPropertiesUndo(command, g) ==
    LET id == command.args[1] IN
    IF getObject(g, id) = 0
    THEN Act("throw", NoValue, {}, g, command.undoData)
    ELSE Act("resolve", NoValue, {},
             setObjectProperties(g, id, command.undoData.props),
             command.undoData)

\* command/removeObject.js: execute(graphics, id)
removeObjectExecute(command, g) ==
    LET r == removeObjectById(g, command.args[1])
        undoData == [command.undoData EXCEPT !.objects = r.objects]
    IN  IF Len(r.objects) > 0
        THEN Act("resolve", NoValue, {}, r.g, undoData)
        ELSE Act("reject", NoValue, {"noObject"}, r.g, undoData)

\* command/clearObjects.js: execute(graphics)
clearObjectsExecute(command, g) ==
    LET r == removeAll(g)
    IN  Act("resolve", NoValue, {}, r.g,
            [command.undoData EXCEPT !.objects = r.objects])

\* removeObject / clearObjects: undo(graphics)
addObjectsUndo(command, g) ==
    Act("resolve", NoValue, {}, add(g, command.undoData.objects),
        command.undoData)

\* command/addImageObject.js: execute returns the pending promise of
\* graphics.addImageObject; the image loads later (addImageObjectLoaded)
addImageObjectExecute(command, g) ==
    Act("load", NoValue, {}, g, command.undoData)

addImageObjectLoaded(command, g) ==
    LET r == addImageObject(g)
    IN  Act("resolve", r.id, {}, r.g,
            [command.undoData EXCEPT !.object = getObject(r.g, r.id)])

\* command/addImageObject.js: undo(graphics)
addImageObjectUndo(command, g) ==
    Act("resolve", NoValue, {}, remove(g, command.undoData.object),
        command.undoData)

\* command/changeIconColor.js: execute(graphics, id, color); after
\* reject() the executor runs on and getColor(undefined) throws inside the
\* already rejected promise
changeIconColorExecute(command, g) ==
    LET id == command.args[1]
        color == command.args[2]
        targetObj == getObject(g, id)
    IN  IF targetObj = 0
        THEN Act("reject", NoValue, {"noObject"}, g,
                 [command.undoData EXCEPT !.object = targetObj])
        ELSE Act("resolve", NoValue, {}, setColor(g, color, targetObj),
                 [command.undoData EXCEPT !.object = targetObj,
                                          !.color = getColor(g, targetObj)])

\* command/changeIconColor.js: undo(graphics); {object: icon, color} are
\* read from this.undoData.object, the fabric object, which has neither
\* property, so both are undefined
changeIconColorUndo(command, g) ==
    LET source == command.undoData.object
        icon == 0
        color == NoValue
    IN  IF source = 0
        THEN Act("throw", NoValue, {}, g, command.undoData)
        ELSE Act("resolve", NoValue, {}, setColor(g, color, icon),
                 command.undoData)

\* command/changeText.js: execute(graphics, id, text)
changeTextExecute(command, g) ==
    LET id == command.args[1]
        text == command.args[2]
        targetObj == getObject(g, id)
    IN  IF targetObj = 0
        THEN Act("reject", NoValue, {"noObject"}, g, command.undoData)
        ELSE Act("resolve", NoValue, {}, change(g, targetObj, text),
                 [command.undoData EXCEPT !.object = targetObj,
                                          !.text = getText(g, targetObj)])

\* command/changeText.js: undo(graphics)
changeTextUndo(command, g) ==
    LET textObj == command.undoData.object
        text == command.undoData.text
    IN  Act("resolve", NoValue, {}, change(g, textObj, text), command.undoData)

\* command/changeTextStyle.js: execute(graphics, id, styles)
changeTextStyleExecute(command, g) ==
    LET id == command.args[1]
        styles == command.args[2]
        targetObj == getObject(g, id)
    IN  IF targetObj = 0
        THEN Act("reject", NoValue, {"noObject"}, g, command.undoData)
        ELSE Act("resolve", NoValue, {}, setStyle(g, targetObj, styles),
                 [command.undoData EXCEPT
                     !.object = targetObj,
                     !.styles = [k \in DOMAIN styles |-> g.props[targetObj][k]]])

\* command/changeTextStyle.js: undo(graphics)
changeTextStyleUndo(command, g) ==
    LET textObj == command.undoData.object
        styles == command.undoData.styles
    IN  Act("resolve", NoValue, {}, setStyle(g, textObj, styles),
            command.undoData)

Max(a, b) == IF a >= b THEN a ELSE b
Min(a, b) == IF a <= b THEN a ELSE b

\* createAddObjectCommand(object): the object is stamped when the command
\* is created; execute adds it unless the canvas contains it, and rejects
\* without a reason otherwise
addObjectExecute(command, g) ==
    LET object == command.args[1]
        stamped == [g EXCEPT !.made = Max(@, object)]
    IN  IF ~contains(stamped, object)
        THEN Act("resolve", object, {}, add(stamped, <<object>>), command.undoData)
        ELSE Act("reject", NoValue, {}, stamped, command.undoData)

\* createAddObjectCommand: undo
addObjectUndo(command, g) ==
    LET object == command.args[1] IN
    IF contains(g, object)
    THEN Act("resolve", object, {}, remove(g, object), command.undoData)
    ELSE Act("reject", NoValue, {}, g, command.undoData)

\* ImageLoader.load(imageName, img) with an image that needs no loading
\* (null or a fabric.Image instance): settled when it returns
load(g, imageName, img) ==
    IF imageName = "" /\ img = NoImage
    THEN [out |-> "resolve", g |-> setCanvasImage(g, "", NoImage)]
    ELSE IF img = NoImage
    THEN [out |-> "reject", g |-> g]
    ELSE [out |-> "resolve", g |-> setCanvasImage(g, imageName, img)]

\* createLoadImageCommand: execute.  The store is filled and the canvas
\* cleared before loader.load is called; an image given by URL is loaded
\* later (loadImageLoaded) or fails to load.
loadImageExecute(command, g, o) ==
    LET imageName == command.args[1]
        url == command.args[2]
        store == [command.undoData EXCEPT !.prevName = g.imageName,
                                          !.prevImage = g.canvasImage,
                                          !.objects = g.canvas]
        cleared == [g EXCEPT !.canvas = <<>>]
        r == load(cleared, imageName, NoImage)
    IN  IF url = 0
        THEN Act(r.out, NoValue, {}, r.g, store)
        ELSE Act(IF o = "reject" THEN "loadFail" ELSE "load", NoValue, {},
                 cleared, store)

\* ImageLoader.load: the done callback of _setBackgroundImage
loadImageLoaded(command, g) ==
    Act("resolve", NoValue, {},
        setCanvasImage(g, command.args[1], Image(command.args[2])),
        command.undoData)

\* createLoadImageCommand: undo
loadImageUndo(command, g) ==
    LET store == command.undoData
        restored == [g EXCEPT !.canvas = store.objects]
        r == load(restored, store.prevName, store.prevImage)
    IN  Act(r.out, NoValue, {}, r.g, store)

\* command.execute(...args): the synchronous part of the forward action
Forward(command, g, o) ==
    CASE command.name = "testCommand" -> testCommandAction(command, g, o)
      [] command.name = "rotate" -> rotateExecute(command, g)
      [] command.name = "setObjectProperties" -> setObjectPropertiesExecute(command, g)
      [] command.name = "removeObject" -> removeObjectExecute(command, g)
      [] command.name = "clearObjects" -> clearObjectsExecute(command, g)
      [] command.name = "addImageObject" -> addImageObjectExecute(command, g)
      [] command.name = "addObject" -> addObjectExecute(command, g)
      [] command.name = "loadImage" -> loadImageExecute(command, g, o)
      [] command.name = "flip" -> flipExecute(command, g)
      [] command.name = "changeIconColor" -> changeIconColorExecute(command, g)
      [] command.name = "changeText" -> changeTextExecute(command, g)
      [] command.name = "changeTextStyle" -> changeTextStyleExecute(command, g)

\* command.undo(...args): the inverse action
Inverse(command, g, o) ==
    CASE command.name = "testCommand" -> testCommandAction(command, g, o)
      [] command.name = "rotate" -> rotateUndo(command, g)
      [] command.name = "setObjectProperties" -> setObjectPropertiesUndo(command, g)
      [] command.name = "removeObject" -> addObjectsUndo(command, g)
      [] command.name = "clearObjects" -> addObjectsUndo(command, g)
      [] command.name = "addImageObject" -> addImageObjectUndo(command, g)
      [] command.name = "addObject" -> addObjectUndo(command, g)
      [] command.name = "loadImage" -> loadImageUndo(command, g)
      [] command.name = "flip" -> flipUndo(command, g)
      [] command.name = "changeIconColor" -> changeIconColorUndo(command, g)
      [] command.name = "changeText" -> changeTextUndo(command, g)
      [] command.name = "changeTextStyle" -> changeTextStyleUndo(command, g)

----------------------------------------------------------------------------
(* History bookkeeping for the properties that compare states.             *)

\* hist.snaps[i+1] is the observable state right after the i-th executed
\* command, as long as the history is executes followed by undos and then
\* by redos only.
NoHist == [phase |-> "broken", snaps |-> <<>>]

HistStep(h, what, g) ==
    IF h.phase = "broken" THEN h
    ELSE CASE what = "execAccepted" -> IF h.phase = "exec" THEN h ELSE NoHist
           [] what = "execDone" -> [h EXCEPT !.snaps = Append(@, Obs(g))]
           [] what = "undoAccepted" ->
                IF h.phase = "redo" THEN NoHist ELSE [h EXCEPT !.phase = "undo"]
           [] what = "undoDone" -> h
           [] what = "redoAccepted" ->
                IF h.phase = "exec" THEN NoHist ELSE [h EXCEPT !.phase = "redo"]
           [] what = "redoDone" -> h
           [] OTHER -> NoHist

NoRt == [cmd |-> 0, stage |-> "none", snap |-> <<>>]
RtOff == [cmd |-> 0, stage |-> "off", snap |-> <<>>]

\* rt follows execute(C) and the undo(), redo() cycles of that one command
\* with nothing between.
RtStep(r, what, c, g) ==
    IF r.stage = "off" THEN r
    ELSE CASE what = "execDone" ->
                [cmd |-> c, stage |-> "executed", snap |-> Obs(g)]
           [] what = "undoAccepted" /\ r.cmd = c
                 /\ r.stage \in {"executed", "redone"} ->
                [r EXCEPT !.stage = "undoing"]
           [] what = "undoDone" /\ r.cmd = c /\ r.stage = "undoing" ->
                [r EXCEPT !.stage = "undone"]
           [] what = "redoAccepted" /\ r.cmd = c /\ r.stage = "undone" ->
                [r EXCEPT !.stage = "redoing"]
           [] what = "redoDone" /\ r.cmd = c /\ r.stage = "redoing" ->
                [r EXCEPT !.stage = "redone"]
           [] OTHER -> NoRt

\* completed lists the commands whose forward action has completed
\* (execute or redo) and which no accepted undo has taken since, in the
\* order of completion.
CompletedStep(d, what, c) ==
    CASE what \in {"execDone", "redoDone", "recorded"} -> Append(d, c)
      [] what \in {"undoAccepted", "undoThrown"} -> SelectSeq(d, LAMBDA x : x # c)
      [] what = "clearUndo" -> <<>>
      [] OTHER -> d

Book(what, c, g) ==
    /\ hist' = HistStep(hist, what, g)
    /\ rt' = RtStep(rt, what, c, g)
    /\ completed' = CompletedStep(completed, what, c)

\* The stack-changed events of the step reach the listeners.
Announce ==
    reported' = [undo |-> LastReported(trace', "undoStackChanged", reported.undo),
                 redo |-> LastReported(trace', "redoStackChanged", reported.redo)]

----------------------------------------------------------------------------
\* new ImageEditor(): no removal of a group in progress.  targetObjects is
\* the array _removeObjectStream pops, waiting the removeObject command whose
\* promise its continuation is attached to; group and before record the
\* selection and the length of the undo stack when the removal started.
\* state is _state of the state-based ImageEditor, started the drawing
\* components (named by their state) that were started and not ended.
NoEditor ==
    [targetObjects |-> <<>>, waiting |-> 0, group |-> <<>>, before |-> 0,
     state |-> "NORMAL", started |-> {}]

\* new Invoker(): empty stacks, unlocked, nothing pending
InitInvokerFields ==
    /\ undoStack = <<>>
    /\ redoStack = <<>>
    /\ isLocked = FALSE
    /\ cmds = <<>>
    /\ inflight = {}
    /\ postQ = <<>>
    /\ last = Ret("none", "none", 0, "none", {}, NoValue)
    /\ trace = <<>>
    /\ reported = [undo |-> NotReported, redo |-> NotReported]
    /\ completed = <<>>
    /\ editor = NoEditor

\* A canvas holding one object (stamp 1) whose angle is a, and a loaded
\* image, not rotated.
InitGraphics(a) ==
    [canvas |-> <<1>>,
     props |-> [o \in ObjIds |-> [angle |-> IF o = 1 THEN a ELSE 0,
                                  strokeWidth |-> 1,
                                  fill |-> "black",
                                  text |-> "old"]],
     made |-> 1,
     members |-> [o \in ObjIds |-> <<>>],
     cropzone |-> 0,
     canvasImage |-> Image(1),
     imageName |-> "image",
     drawingMode |-> "NORMAL",
     started |-> {},
     cropperCropzone |-> 0,
     evented |-> [o \in ObjIds |-> TRUE]]

\* The editor after construction, one object on the canvas.
Init ==
    /\ InitInvokerFields
    /\ \E a \in InitAngles : graphics = InitGraphics(a)
    /\ hist = [phase |-> "exec", snaps |-> <<Obs(graphics)>>]
    /\ rt = NoRt

\* The invoker alone: its commands never touch the collaborator, so no
\* history of collaborator states is kept.
InitInvoker ==
    /\ InitInvokerFields
    /\ graphics = InitGraphics(0)
    /\ hist = NoHist
    /\ rt = RtOff

\* Faulty variant of Args: the action is called without arguments.
Args_none(command) == <<>>

\* _invokeExecution / _invokeUndo: let {args} = command, spread into the
\* call of the action
Args(command) == command.args

\* The command as its action sees it when called with Args(command).
Invoked(command) == [command EXCEPT !.args = Args(command)]

\* Faulty variants of lock / unlock: the flag is not changed.
lock_noop == FALSE
unlock_stuck == TRUE

\* Invoker.lock / Invoker.unlock
lock == TRUE
unlock == FALSE

\* Invoker._invokeExecution(command), up to the return of command.execute
invokeExecution(op, c, command, o) ==
    LET a == Forward(Invoked(command), graphics, o) IN
    /\ isLocked' = lock
    /\ graphics' = a.g
    /\ cmds' = [IF c > Len(cmds) THEN Append(cmds, command) ELSE cmds
                  EXCEPT ![c].undoData = a.undoData,
                         ![c].res = [out |-> a.out, val |-> a.val, why |-> a.why]]
    /\ trace' = (IF op = "redo" /\ isEmptyRedoStack(Pop(redoStack))
                 THEN <<Ev("redoStackChanged", 0)>> ELSE <<>>)
                \o (IF op = "execute" THEN <<Ev("create", command.name)>>
                    ELSE <<>>)
                \o <<Ev("lock", 0), Ev("forward", c), Ev("args", Args(command))>>
    /\ IF a.out = "throw"
       THEN /\ inflight' = inflight
            /\ last' = Ret("call", op, c, "thrown", {}, NoValue)
            /\ Book("failed", c, graphics')
       ELSE /\ inflight' = inflight \cup {[op |-> op, cmd |-> c]}
            /\ last' = Ret("call", op, c, "accepted", {}, NoValue)
            /\ Book(IF op = "redo" THEN "redoAccepted" ELSE "execAccepted",
                    c, graphics')

\* Invoker._invokeUndo(command), up to the return of command.undo
invokeUndo(c, o) ==
    LET a == Inverse(Invoked(cmds[c]), graphics, o) IN
    /\ isLocked' = lock
    /\ graphics' = a.g
    /\ cmds' = [cmds EXCEPT ![c].undoData = a.undoData,
                            ![c].res = [out |-> a.out, val |-> a.val, why |-> a.why]]
    /\ trace' = (IF isEmptyUndoStack(Pop(undoStack))
                 THEN <<Ev("undoStackChanged", 0)>> ELSE <<>>)
                \o <<Ev("lock", 0), Ev("inverse", c), Ev("args", Args(cmds[c]))>>
    /\ IF a.out = "throw"
       THEN /\ inflight' = inflight
            /\ last' = Ret("call", "undo", c, "thrown", {}, NoValue)
            /\ Book("undoThrown", c, graphics')
       ELSE /\ inflight' = inflight \cup {[op |-> "undo", cmd |-> c]}
            /\ last' = Ret("call", "undo", c, "accepted", {}, NoValue)
            /\ Book("undoAccepted", c, graphics')

\* Invoker.execute(commandName, ...args)
execute(name, args, cb, o) ==
    /\ IF isLocked
       THEN /\ last' = Ret("call", "execute", 0, "rejected",
                           rejectMessages.isLock, NoValue)
            /\ trace' = <<>>
            /\ UNCHANGED <<undoStack, redoStack, isLocked, cmds, inflight, postQ,
                           graphics, hist, rt, completed>>
       ELSE IF create(name, args, cb).thrown
       THEN /\ last' = Ret("call", "execute", 0, "notCreated", {}, NoValue)
            /\ trace' = <<Ev("create", name)>>
            /\ UNCHANGED <<undoStack, redoStack, isLocked, cmds, inflight, postQ,
                           graphics, hist, rt, completed>>
       ELSE /\ Len(cmds) < MaxCmds
            /\ invokeExecution("execute", Len(cmds) + 1,
                               create(name, args, cb).command, o)
            /\ UNCHANGED <<undoStack, redoStack, postQ>>
    /\ Announce

\* Invoker.undo()
undo(o) ==
    LET popped == Top(undoStack)
        rest == Pop(undoStack)
        pushedBack == popped # 0 /\ isLocked
        command == IF pushedBack THEN 0 ELSE popped
    IN  /\ IF command # 0
           THEN /\ undoStack' = rest
                /\ invokeUndo(command, o)
                /\ UNCHANGED <<redoStack, postQ>>
           ELSE /\ undoStack' = IF pushedBack
                                THEN pushUndoStack(rest, popped, TRUE).stack
                                ELSE rest
                /\ last' = Ret("call", "undo", 0, "rejected",
                               IF isLocked
                               THEN Because(rejectMessages.undo, rejectMessages.isLock)
                               ELSE rejectMessages.undo, NoValue)
                /\ trace' = IF pushedBack
                            THEN pushUndoStack(rest, popped, TRUE).fired
                            ELSE <<>>
                /\ UNCHANGED <<redoStack, isLocked, cmds, inflight, postQ,
                               graphics, hist, rt, completed>>
        /\ Announce

\* Invoker.redo()
redo(o) ==
    LET popped == Top(redoStack)
        rest == Pop(redoStack)
        pushedBack == popped # 0 /\ isLocked
        command == IF pushedBack THEN 0 ELSE popped
    IN  /\ IF command # 0
           THEN /\ redoStack' = rest
                /\ invokeExecution("redo", command, cmds[command], o)
                /\ UNCHANGED <<undoStack, postQ>>
           ELSE /\ redoStack' = IF pushedBack
                                THEN pushRedoStack(rest, popped, TRUE).stack
                                ELSE rest
                /\ last' = Ret("call", "redo", 0, "rejected",
                               IF isLocked
                               THEN Because(rejectMessages.redo, rejectMessages.isLock)
                               ELSE rejectMessages.redo, NoValue)
                /\ trace' = IF pushedBack
                            THEN pushRedoStack(rest, popped, TRUE).fired
                            ELSE <<>>
                /\ UNCHANGED <<undoStack, isLocked, cmds, inflight, postQ,
                               graphics, hist, rt, completed>>
        /\ Announce

\* What the promise of the action in flight settles with: an image still
\* loading settles when it has loaded.
Settlement(command, g) ==
    CASE command.res.out = "load" /\ command.name = "addImageObject" ->
            addImageObjectLoaded(command, g)
      [] command.res.out = "load" /\ command.name = "loadImage" ->
            loadImageLoaded(command, g)
      [] command.res.out = "loadFail" ->
            Act("reject", NoValue, {}, g, command.undoData)
      [] OTHER ->
            Act(command.res.out, command.res.val, command.res.why, g,
                command.undoData)

\* Invoker._invokeExecution: the then / catch callbacks
invokeExecutionSettled(f) ==
    LET c == f.cmd
        a == Settlement(cmds[c], graphics)
        pushed == pushUndoStack(undoStack, c, FALSE)
    IN  /\ f.op \in {"execute", "redo"}
        /\ (cmds[c].res.out = "load" /\ cmds[c].name = "addImageObject")
              => graphics.made < MaxObjs
        /\ inflight' = inflight \ {f}
        /\ graphics' = a.g
        /\ cmds' = [cmds EXCEPT ![c].undoData = a.undoData, ![c].res = NoRes]
        /\ isLocked' = unlock
        /\ UNCHANGED redoStack
        /\ IF a.out = "resolve"
           THEN /\ undoStack' = pushed.stack
                /\ trace' = <<Ev("pushUndoStack", c)>> \o pushed.fired
                            \o <<Ev("unlock", 0)>>
                            \o (IF cmds[c].cb THEN <<Ev("executeCallback", c)>>
                                ELSE <<>>)
                /\ IF f.op = "execute"
                   THEN /\ postQ' = Append(postQ, [cmd |-> c, val |-> a.val])
                        /\ last' = Ret("settled", "execute", c, "pending", {}, a.val)
                        /\ Book("execDone", c, graphics')
                   ELSE /\ postQ' = postQ
                        /\ last' = Ret("settled", "redo", c, "resolved", {}, a.val)
                        /\ Book("redoDone", c, graphics')
           ELSE /\ undoStack' = undoStack
                /\ trace' = <<Ev("unlock", 0)>>
                /\ postQ' = postQ
                /\ last' = Ret("settled", f.op, c, "rejected", a.why, NoValue)
                /\ Book("failed", c, graphics')
        /\ Announce

\* Invoker._invokeUndo: the then / catch callbacks
invokeUndoSettled(f) ==
    LET c == f.cmd
        a == Settlement(cmds[c], graphics)
        pushed == pushRedoStack(redoStack, c, FALSE)
    IN  /\ f.op = "undo"
        /\ inflight' = inflight \ {f}
        /\ graphics' = a.g
        /\ cmds' = [cmds EXCEPT ![c].res = NoRes]
        /\ isLocked' = unlock
        /\ UNCHANGED <<undoStack, postQ>>
        /\ IF a.out = "resolve"
           THEN /\ redoStack' = pushed.stack
                /\ trace' = <<Ev("pushRedoStack", c)>> \o pushed.fired
                            \o <<Ev("unlock", 0)>>
                            \o (IF cmds[c].cb THEN <<Ev("undoCallback", c)>>
                                ELSE <<>>)
                /\ last' = Ret("settled", "undo", c, "resolved", {}, a.val)
                /\ Book("undoDone", c, graphics')
           ELSE /\ redoStack' = redoStack
                /\ trace' = <<Ev("unlock", 0)>>
                /\ last' = Ret("settled", "undo", c, "rejected", a.why, NoValue)
                /\ Book("failed", c, graphics')
        /\ Announce

\* Invoker.execute: .then(value => { this.clearRedoStack(); return value; })
executeThen ==
    /\ postQ # <<>>
    /\ LET cleared == clearRedoStack(redoStack) IN
        /\ redoStack' = cleared.stack
        /\ trace' = <<Ev("clearRedoStack", 0)>> \o cleared.fired
                    \o <<Ev("resolve", Head(postQ).cmd)>>
    /\ last' = Ret("resolved", "execute", Head(postQ).cmd, "resolved", {},
                   Head(postQ).val)
    /\ postQ' = Tail(postQ)
    /\ UNCHANGED <<undoStack, isLocked, cmds, inflight, graphics, hist, rt,
                   completed>>
    /\ Announce

\* ImageEditor.clearUndoStack -> Invoker.clearUndoStack
clearUndo ==
    /\ undoStack' = clearUndoStack(undoStack).stack
    /\ trace' = clearUndoStack(undoStack).fired
    /\ last' = Ret("call", "clearUndoStack", 0, "done", {}, NoValue)
    /\ Book("clearUndo", 0, graphics)
    /\ UNCHANGED <<redoStack, isLocked, cmds, inflight, postQ, graphics>>
    /\ Announce

\* ImageEditor.clearRedoStack -> Invoker.clearRedoStack
clearRedo ==
    /\ redoStack' = clearRedoStack(redoStack).stack
    /\ trace' = clearRedoStack(redoStack).fired
    /\ last' = Ret("call", "clearRedoStack", 0, "done", {}, NoValue)
    /\ Book("other", 0, graphics)
    /\ UNCHANGED <<undoStack, isLocked, cmds, inflight, postQ, graphics>>
    /\ Announce

\* Graphics._onPathCreated -> ImageEditor._onAddObject ->
\* _pushAddObjectCommand(obj): an object the user has drawn is on the canvas
\* already; an addObject command for it is created and pushed on the undo
\* stack without being executed.
onAddObject ==
    LET obj == graphics.made + 1
        c == Len(cmds) + 1
        pushed == pushUndoStack(undoStack, c, FALSE)
    IN  /\ graphics.made < MaxObjs
        /\ Len(cmds) < MaxCmds
        /\ graphics' = [graphics EXCEPT !.made = obj,
                                        !.canvas = Append(@, obj)]
        /\ cmds' = Append(cmds, create("addObject", <<obj>>, FALSE).command)
        /\ undoStack' = pushed.stack
        /\ trace' = <<Ev("create", "addObject"), Ev("pushUndoStack", c)>>
                    \o pushed.fired
        /\ last' = Ret("call", "pushAddObjectCommand", c, "done", {}, NoValue)
        /\ Book("recorded", c, graphics')
        /\ UNCHANGED <<redoStack, isLocked, inflight, postQ>>
        /\ Announce

\* The invoker under arbitrary callers: the custom command of the tests
\* (any outcome), calls issued at any moment.
\* executeCallback / undoCallback belong to the registered actions, so every
\* instance of the custom command has them or none has.
Registered == IF cmds = <<>> THEN BOOLEAN ELSE {cmds[1].cb}

\* Names a caller passes to execute: the custom command and a name nobody
\* registered.
Names == {"testCommand", "notRegistered"}

Next ==
    \/ /\ \E name \in Names, cb \in Registered, o \in Outcomes :
             execute(name, <<>>, cb, o)
       /\ UNCHANGED editor
    \/ /\ \E o \in Outcomes : undo(o)
       /\ UNCHANGED editor
    \/ /\ \E o \in Outcomes : redo(o)
       /\ UNCHANGED editor
    \/ /\ \E f \in inflight : invokeExecutionSettled(f)
       /\ UNCHANGED editor
    \/ /\ \E f \in inflight : invokeUndoSettled(f)
       /\ UNCHANGED editor
    \/ executeThen /\ UNCHANGED editor
    \/ clearUndo /\ UNCHANGED editor
    \/ clearRedo /\ UNCHANGED editor

Spec == InitInvoker /\ [][Next]_vars

\* The promise callbacks of a settled action run (the microtask queue is
\* always drained); whether an action settles at all is up to the command.
Settle ==
    /\ \E f \in inflight : invokeExecutionSettled(f) \/ invokeUndoSettled(f)
    /\ UNCHANGED editor

SpecSettling == InitInvoker /\ [][Next]_vars /\ WF_vars(Settle)

\* The editor's commands under a caller that awaits every promise before
\* the next call (ImageEditor.execute / undo / redo used sequentially).
Idle == ~isLocked /\ inflight = {} /\ postQ = <<>>

NextEditor ==
    \/ /\ \E args \in RotateArgs : Idle /\ execute("rotate", args, FALSE, "resolve")
       /\ UNCHANGED editor
    \/ /\ \E id \in ArgIds, props \in PropsArgs :
             Idle /\ execute("setObjectProperties", <<id, props>>, FALSE, "resolve")
       /\ UNCHANGED editor
    \/ /\ \E id \in ArgIds : Idle /\ execute("removeObject", <<id>>, FALSE, "resolve")
       /\ UNCHANGED editor
    \/ /\ Idle /\ execute("clearObjects", <<>>, FALSE, "resolve")
       /\ UNCHANGED editor
    \/ /\ Idle /\ execute("addImageObject", <<>>, FALSE, "resolve")
       /\ UNCHANGED editor
    \/ Idle /\ undo("resolve") /\ UNCHANGED editor
    \/ Idle /\ redo("resolve") /\ UNCHANGED editor
    \/ /\ \E f \in inflight : invokeExecutionSettled(f)
       /\ UNCHANGED editor
    \/ /\ \E f \in inflight : invokeUndoSettled(f)
       /\ UNCHANGED editor
    \/ executeThen /\ UNCHANGED editor

SpecEditor == Init /\ [][NextEditor]_vars

\* Parameters the tests pass to the custom command.
TestArgs == {<<1, 2, 3>>, <<3, 2, 1>>, <<>>}

\* The custom command called with parameters by a caller that awaits every
\* promise; its actions may fail.
NextArgs ==
    \/ /\ \E args \in TestArgs, o \in {"resolve", "reject"} :
             Idle /\ execute("testCommand", args, FALSE, o)
       /\ UNCHANGED editor
    \/ /\ \E o \in {"resolve", "reject"} : Idle /\ undo(o)
       /\ UNCHANGED editor
    \/ /\ \E o \in {"resolve", "reject"} : Idle /\ redo(o)
       /\ UNCHANGED editor
    \/ /\ \E f \in inflight : invokeExecutionSettled(f)
       /\ UNCHANGED editor
    \/ /\ \E f \in inflight : invokeUndoSettled(f)
       /\ UNCHANGED editor
    \/ executeThen /\ UNCHANGED editor

SpecArgs == InitInvoker /\ [][NextArgs]_vars

\* A user who draws objects and removes, undoes and redoes, awaiting every
\* promise.
NextDraw ==
    \/ onAddObject /\ UNCHANGED editor
    \/ /\ \E id \in ArgIds : Idle /\ execute("removeObject", <<id>>, FALSE, "resolve")
       /\ UNCHANGED editor
    \/ Idle /\ undo("resolve") /\ UNCHANGED editor
    \/ Idle /\ redo("resolve") /\ UNCHANGED editor
    \/ /\ \E f \in inflight : invokeExecutionSettled(f)
       /\ UNCHANGED editor
    \/ /\ \E f \in inflight : invokeUndoSettled(f)
       /\ UNCHANGED editor
    \/ executeThen /\ UNCHANGED editor

SpecDraw == Init /\ [][NextDraw]_vars

\* Types given to the flip command.
FlipArgs == {"flipX", "flipY", "reset"}

\* The image commands (rotate, flip) under a caller that awaits every
\* promise.
NextImage ==
    \/ /\ \E args \in RotateArgs : Idle /\ execute("rotate", args, FALSE, "resolve")
       /\ UNCHANGED editor
    \/ /\ \E type \in FlipArgs : Idle /\ execute("flip", <<type>>, FALSE, "resolve")
       /\ UNCHANGED editor
    \/ Idle /\ undo("resolve") /\ UNCHANGED editor
    \/ Idle /\ redo("resolve") /\ UNCHANGED editor
    \/ /\ \E f \in inflight : invokeExecutionSettled(f)
       /\ UNCHANGED editor
    \/ /\ \E f \in inflight : invokeUndoSettled(f)
       /\ UNCHANGED editor
    \/ executeThen /\ UNCHANGED editor

SpecImage == Init /\ [][NextImage]_vars

\* The canvas of the removeCommand tests: two objects and a group holding
\* them, all three added to the canvas.
InitObjects ==
    /\ InitInvokerFields
    /\ graphics = [InitGraphics(0) EXCEPT !.canvas = <<1, 2, 3>>,
                                          !.made = 3,
                                          !.members[3] = <<1, 2>>]
    /\ hist = [phase |-> "exec", snaps |-> <<Obs(graphics)>>]
    /\ rt = NoRt

\* Objects an application can hand to addObject: the ones stamped so far and
\* a new one.
Stampable == 1..Min(graphics.made + 1, MaxObjs)

\* addObject / removeObject under a caller that awaits every promise.
NextObjects ==
    \/ /\ \E object \in Stampable :
             Idle /\ execute("addObject", <<object>>, FALSE, "resolve")
       /\ UNCHANGED editor
    \/ /\ \E id \in ObjIds : Idle /\ execute("removeObject", <<id>>, FALSE, "resolve")
       /\ UNCHANGED editor
    \/ Idle /\ undo("resolve") /\ UNCHANGED editor
    \/ Idle /\ redo("resolve") /\ UNCHANGED editor
    \/ /\ \E f \in inflight : invokeExecutionSettled(f)
       /\ UNCHANGED editor
    \/ /\ \E f \in inflight : invokeUndoSettled(f)
       /\ UNCHANGED editor
    \/ executeThen /\ UNCHANGED editor

SpecObjects == InitObjects /\ [][NextObjects]_vars

\* The editor before any image is loaded (setCanvasImage('', null)); the
\* second object the application makes is of type cropzone.
InitLoad ==
    /\ InitInvokerFields
    /\ graphics = [InitGraphics(0) EXCEPT !.canvas = <<>>,
                                          !.made = 0,
                                          !.cropzone = 2,
                                          !.canvasImage = NoImage,
                                          !.imageName = ""]
    /\ hist = [phase |-> "exec", snaps |-> <<Obs(graphics)>>]
    /\ rt = NoRt

\* Names and URLs given to loadImage.
LoadArgs == {<<"image", 1>>, <<"newImage", 2>>, <<"", 2>>}

\* loadImage and addObject under a caller that awaits every promise; an
\* image may fail to load.
NextLoad ==
    \/ /\ \E args \in LoadArgs, o \in {"resolve", "reject"} :
             Idle /\ execute("loadImage", args, FALSE, o)
       /\ UNCHANGED editor
    \/ /\ \E object \in Stampable :
             Idle /\ execute("addObject", <<object>>, FALSE, "resolve")
       /\ UNCHANGED editor
    \/ Idle /\ undo("resolve") /\ UNCHANGED editor
    \/ Idle /\ redo("resolve") /\ UNCHANGED editor
    \/ /\ \E f \in inflight : invokeExecutionSettled(f)
       /\ UNCHANGED editor
    \/ /\ \E f \in inflight : invokeUndoSettled(f)
       /\ UNCHANGED editor
    \/ executeThen /\ UNCHANGED editor

SpecLoad == InitLoad /\ [][NextLoad]_vars

\* Commands that change one object addressed by id (an icon's color, a
\* text, text styles, properties) under a caller that awaits every promise;
\* the id may be one that resolves to no object.
NextStyle ==
    \/ /\ \E id \in ArgIds, color \in Colors :
             Idle /\ execute("changeIconColor", <<id, color>>, FALSE, "resolve")
       /\ UNCHANGED editor
    \/ /\ \E id \in ArgIds, text \in Texts :
             Idle /\ execute("changeText", <<id, text>>, FALSE, "resolve")
       /\ UNCHANGED editor
    \/ /\ \E id \in ArgIds, styles \in StylesArgs :
             Idle /\ execute("changeTextStyle", <<id, styles>>, FALSE, "resolve")
       /\ UNCHANGED editor
    \/ /\ \E id \in ArgIds, props \in PropsArgs :
             Idle /\ execute("setObjectProperties", <<id, props>>, FALSE, "resolve")
       /\ UNCHANGED editor
    \/ Idle /\ undo("resolve") /\ UNCHANGED editor
    \/ Idle /\ redo("resolve") /\ UNCHANGED editor
    \/ /\ \E f \in inflight : invokeExecutionSettled(f)
       /\ UNCHANGED editor
    \/ /\ \E f \in inflight : invokeUndoSettled(f)
       /\ UNCHANGED editor
    \/ executeThen /\ UNCHANGED editor

\* The editor after construction, one object on the canvas, not rotated.
InitStyle ==
    /\ InitInvokerFields
    /\ graphics = InitGraphics(0)
    /\ hist = [phase |-> "exec", snaps |-> <<Obs(graphics)>>]
    /\ rt = NoRt

SpecStyle == InitStyle /\ [][NextStyle]_vars

\* Faulty variant of Resolved: the continuation does not wait.
Resolved_atOnce(c) == TRUE

\* removeObject(id).then(...): the promise returned by execute for command c
\* has just resolved, its then-callbacks run next.
Resolved(c) == last.ev = "resolved" /\ last.op = "execute" /\ last.cmd = c

\* ImageEditor._removeObjectStream(targetObjects): pops the last target and
\* executes removeObject for it; the continuation is attached to the promise
\* and never runs when that promise is rejected.
removeObjectStream(targetObjects, group, before) ==
    IF targetObjects = <<>>
    THEN /\ editor' = NoEditor
         /\ last' = Ret("call", "removeObjectStream", 0, "done", {}, NoValue)
         /\ trace' = <<>>
         /\ UNCHANGED <<undoStack, redoStack, isLocked, cmds, inflight, postQ,
                        graphics, hist, rt, completed>>
         /\ Announce
    ELSE LET targetObject == targetObjects[Len(targetObjects)]
             rest == SubSeq(targetObjects, 1, Len(targetObjects) - 1)
         IN  /\ execute("removeObject", <<targetObject>>, FALSE, "resolve")
             /\ editor' = [editor EXCEPT
                              !.targetObjects = rest,
                              !.waiting = IF isLocked THEN 0 ELSE Len(cmds) + 1,
                              !.group = group, !.before = before]

\* ImageEditor.removeActiveObject(): objects is what the user has selected,
\* an active group (two or more objects) or one active object.
removeActiveObject(objects) ==
    IF Len(objects) > 1
    THEN removeObjectStream(objects, objects, Len(undoStack))
    ELSE /\ execute("removeObject", <<objects[1]>>, FALSE, "resolve")
         /\ UNCHANGED editor

\* The then-callback of _removeObjectStream: () => this._removeObjectStream(
\* targetObjects)
removeObjectStreamThen ==
    /\ editor.waiting # 0
    /\ Resolved(editor.waiting)
    /\ removeObjectStream(editor.targetObjects, editor.group, editor.before)

\* What a user can select: distinct objects of the canvas, in any order.
Selections ==
    {objects \in UNION {[1..n -> ObjIds] : n \in 1..MaxObjs} :
        /\ \A i \in DOMAIN objects : contains(graphics, objects[i])
        /\ \A i, j \in DOMAIN objects : i # j => objects[i] # objects[j]}

\* A canvas holding every object of the run, none of them a group.
InitStream ==
    /\ InitInvokerFields
    /\ graphics = [InitGraphics(0) EXCEPT !.canvas = [i \in ObjIds |-> i],
                                          !.made = MaxObjs]
    /\ hist = [phase |-> "exec", snaps |-> <<Obs(graphics)>>]
    /\ rt = NoRt

\* A user who removes the selection, undoes and redoes, with no other
\* operation in progress: calls are made when the invoker is idle and no
\* removal of a group is under way.
NextStream ==
    \/ \E objects \in Selections :
          Idle /\ editor.waiting = 0 /\ removeActiveObject(objects)
    \/ removeObjectStreamThen
    \/ Idle /\ editor.waiting = 0 /\ undo("resolve") /\ UNCHANGED editor
    \/ Idle /\ editor.waiting = 0 /\ redo("resolve") /\ UNCHANGED editor
    \/ /\ \E f \in inflight : invokeExecutionSettled(f)
       /\ UNCHANGED editor
    \/ /\ \E f \in inflight : invokeUndoSettled(f)
       /\ UNCHANGED editor
    \/ executeThen /\ UNCHANGED editor

SpecStream == InitStream /\ [][NextStream]_vars

\* Angles given to Rotation.setAngle and Rotation.rotate: those of the
\* documentation and some beyond a full turn.
RotationAngles == {5, 10, -95, 400, -370}

\* A direct call of the Rotation component: setAngle(angle) or
\* rotate(additionalAngle); both resolve with the new angle.
Rotation(type, angle) ==
    LET r == IF type = "rotate" THEN rotate(graphics, angle)
             ELSE setAngle(graphics, angle)
    IN  /\ graphics' = r.g
        /\ last' = Ret("call", type, 0, "resolved", {}, r.val)
        /\ trace' = <<Ev("args", <<angle>>)>>
        /\ UNCHANGED <<undoStack, redoStack, isLocked, cmds, inflight, postQ,
                       hist, rt, completed, editor>>
        /\ Announce

NextRotation ==
    \/ \E angle \in RotationAngles : Rotation("setAngle", angle)
    \/ \E angle \in RotationAngles : Rotation("rotate", angle)

SpecRotation == Init /\ [][NextRotation]_vars

\* A call on the Graphics instance or one of its components that does not
\* go through the invoker: r is what the call makes of the graphics, the
\* events it fires and what it returns.
call(op, arg, r) ==
    /\ graphics' = r.g
    /\ last' = Ret("call", op, 0, "done", {}, r.val)
    /\ trace' = <<Ev("args", <<arg>>)>> \o r.fired
    /\ UNCHANGED <<undoStack, redoStack, isLocked, cmds, inflight, postQ,
                   hist, rt, completed, editor>>
    /\ Announce

\* Drawing modes switched in any order, the cropper also used directly as
\* its tests do, while the user draws objects.
NextModes ==
    \/ \E mode \in drawingModes :
          call("startDrawingMode", mode, startDrawingMode(graphics, mode))
    \/ call("stopDrawingMode", "", stopDrawingMode(graphics))
    \/ call("start", "", [g |-> start(graphics), fired |-> <<>>, val |-> NoValue])
    \/ \E isApplying \in BOOLEAN, isValid \in BOOLEAN :
          call("end", isApplying, end(graphics, isApplying, isValid))
    \/ onAddObject /\ UNCHANGED editor

SpecModes == Init /\ [][NextModes]_vars

\* ImageEditor.endTextMode / endFreeDrawing / endLineDrawing / endCropping /
\* endDrawingShapeMode (state-based editor): nothing unless the editor is in
\* that state; otherwise the component is ended and the state is NORMAL.
endAction(e, state) ==
    IF e.state # state THEN e
    ELSE [e EXCEPT !.started = @ \ {state}, !.state = "NORMAL"]

\* ImageEditor.endAll()
endAll(e) ==
    [endAction(endAction(endAction(endAction(endAction(e,
        "TEXT"), "FREE_DRAWING"), "LINE"), "CROP"), "SHAPE")
     EXCEPT !.state = "NORMAL"]

\* ImageEditor.startCropping / startFreeDrawing / startLineDrawing: nothing
\* in that state; otherwise endAll(), then the component is started.
startAction(e, state) ==
    IF e.state = state THEN e
    ELSE [endAll(e) EXCEPT !.state = state, !.started = @ \cup {state}]

\* ImageEditor.startDrawingShapeMode / startTextMode: the state is set and
\* the component started, without endAll().
startMode(e, state) ==
    IF e.state = state THEN e
    ELSE [e EXCEPT !.state = state, !.started = @ \cup {state}]

\* ImageEditor.addText(text, options): the state becomes TEXT, the text
\* component is not started.
addText(e) == [e EXCEPT !.state = "TEXT"]

\* A call of the state-based ImageEditor that leaves it as e.
editorCall(op, arg, e) ==
    /\ editor' = e
    /\ last' = Ret("call", op, 0, "done", {}, NoValue)
    /\ trace' = <<Ev("args", <<arg>>)>>
    /\ UNCHANGED <<undoStack, redoStack, isLocked, cmds, inflight, postQ,
                   graphics, hist, rt, completed>>
    /\ Announce

\* The state-based ImageEditor used in any order; its undo() and redo()
\* call endAll() and then the invoker, whose stacks are empty here.
NextState ==
    \/ \E state \in {"CROP", "FREE_DRAWING", "LINE"} :
          editorCall("startAction", state, startAction(editor, state))
    \/ \E state \in {"SHAPE", "TEXT"} :
          editorCall("startMode", state, startMode(editor, state))
    \/ editorCall("addText", "", addText(editor))
    \/ editorCall("endAll", "", endAll(editor))
    \/ undo("resolve") /\ editor' = endAll(editor)
    \/ redo("resolve") /\ editor' = endAll(editor)

SpecState == Init /\ [][NextState]_vars

----------------------------------------------------------------------------
(* Properties.                                                             *)

\* The failure reasons of the specification, as the messages they carry.
Locked == {"isLock"}
EmptyUndo == {"undo"}
EmptyRedo == {"redo"}
NotFound == {"noObject"}
AlreadyAdded == {"addedObject"}
NoChange == {"rotation"}

\* The step just taken was the synchronous part of a call of op.
Called(op) == last'.ev = "call" /\ last'.op = op
ApiOps == {"execute", "undo", "redo"}
Fired(tr, e) == \E i \in 1..Len(tr) : tr[i].e = e
StackEvents == {"undoStackChanged", "redoStackChanged"}
Pos(tr, e) == CHOOSE i \in 1..Len(tr) : tr[i].e = e

\* C1: at most one forward/inverse action is in flight at any instant, and
\* every execute/undo/redo call made while one is in flight is rejected at
\* once with a reason that contains the lock message.
C1_StackExclusivity ==
    /\ [](Cardinality(inflight) <= 1)
    /\ [][\A op \in ApiOps :
            (Called(op) /\ inflight # {}) =>
                /\ last'.out = "rejected"
                /\ Locked \subseteq last'.why
                /\ inflight' = inflight]_vars

C1_Witness ==
    /\ Cardinality(inflight) = 1
    /\ last.ev = "call" /\ last.op \in ApiOps /\ last.out = "rejected"
    /\ Locked \subseteq last.why

\* C2: a call issued while the invoker is locked is never queued: no action
\* is invoked or left pending, both stacks hold the same commands in the
\* same order afterwards, and no stack-changed notification is emitted.
C2_LockedCallNotQueued ==
    [][\A op \in ApiOps :
        (Called(op) /\ isLocked) =>
            /\ last'.out = "rejected"
            /\ undoStack' = undoStack /\ redoStack' = redoStack
            /\ inflight' = inflight /\ postQ' = postQ /\ cmds' = cmds
            /\ graphics' = graphics
            /\ \A e \in StackEvents \cup {"forward", "inverse"} : ~Fired(trace', e)]_vars

C2_Witness ==
    /\ isLocked /\ Len(undoStack) > 0 /\ Len(redoStack) > 0
    /\ last.ev = "call" /\ last.op = "undo" /\ last.out = "rejected"

\* C3: when the promise of a successful execute resolves the redo stack is
\* empty, and a redo issued next is rejected with the empty-redo message.
C3_RedoInvalidation ==
    /\ []((last.ev = "resolved" /\ last.op = "execute") => redoStack = <<>>)
    /\ [][(last.ev = "resolved" /\ last.op = "execute" /\ Called("redo")) =>
            /\ last'.out = "rejected"
            /\ EmptyRedo \subseteq last'.why
            /\ redoStack' = <<>>]_vars

\* an execute that resolved after undos had left something to redo
C3_Witness ==
    /\ last.ev = "resolved" /\ last.op = "execute"
    /\ Fired(trace, "redoStackChanged")
    /\ redoStack = <<>>

ExecuteSettledOk(l) == l.ev = "settled" /\ l.op = "execute" /\ l.out = "pending"

\* C5 (as amended): on a successful execute the invoker pushes the command
\* on undoStack and fires the undo notification while still locked, then
\* unlocks, then calls the command's executeCallback if present; in a later
\* callback it clears redoStack (firing the redo notification only if it
\* was non-empty) and then resolves with the value the forward action
\* resolved with; the undo stack grows by exactly one.
C5_ExecuteSuccessOrder ==
    /\ [](ExecuteSettledOk(last) =>
            /\ trace = <<Ev("pushUndoStack", last.cmd),
                         Ev("undoStackChanged", Len(undoStack)),
                         Ev("unlock", 0)>>
                       \o (IF cmds[last.cmd].cb
                           THEN <<Ev("executeCallback", last.cmd)>> ELSE <<>>)
            /\ ~isLocked
            /\ postQ # <<>> /\ postQ[Len(postQ)].cmd = last.cmd)
    /\ [][ExecuteSettledOk(last') =>
            undoStack' = Append(undoStack, last'.cmd) /\ redoStack' = redoStack]_vars
    /\ [][(last'.ev = "resolved" /\ last'.op = "execute") =>
            /\ redoStack' = <<>>
            /\ undoStack' = undoStack
            /\ Fired(trace', "redoStackChanged") <=> redoStack # <<>>
            /\ trace'[1] = Ev("clearRedoStack", 0)
            /\ trace'[Len(trace')] = Ev("resolve", last'.cmd)
            /\ last'.val = cmds[last'.cmd].name]_vars

C5_Witness ==
    /\ last.ev = "resolved" /\ last.op = "execute"
    /\ cmds[last.cmd].cb
    /\ Fired(trace, "redoStackChanged")
    /\ Top(undoStack) = last.cmd

\* C5 as stated: unlock comes before the push on undoStack.
C5_UnlockBeforePush ==
    ExecuteSettledOk(last) => Pos(trace, "unlock") < Pos(trace, "pushUndoStack")

Elems(stack) == {stack[i] : i \in 1..Len(stack)}

Reverse(s) == [i \in 1..Len(s) |-> s[Len(s) + 1 - i]]

\* The history as one line: done commands, the one being undone or redone,
\* then the undone ones, oldest undo last.
Timeline ==
    undoStack
    \o (IF \E f \in inflight : f.op \in {"undo", "redo"}
        THEN <<(CHOOSE f \in inflight : f.op \in {"undo", "redo"}).cmd>>
        ELSE <<>>)
    \o Reverse(redoStack)

C8_EmptyStackRejected ==
    /\ [][(Called("undo") /\ undoStack = <<>>) =>
            /\ last'.out = "rejected"
            /\ EmptyUndo \subseteq last'.why
            /\ ~isLocked => last'.why = EmptyUndo
            /\ isLocked' = isLocked /\ inflight' = inflight
            /\ trace' = <<>>
            /\ redoStack' = redoStack /\ undoStack' = <<>>]_vars
    /\ [][(Called("redo") /\ redoStack = <<>>) =>
            /\ last'.out = "rejected"
            /\ EmptyRedo \subseteq last'.why
            /\ ~isLocked => last'.why = EmptyRedo
            /\ isLocked' = isLocked /\ inflight' = inflight
            /\ trace' = <<>>
            /\ undoStack' = undoStack /\ redoStack' = <<>>]_vars

C8_Witness ==
    /\ last.ev = "call" /\ last.op = "undo" /\ last.out = "rejected"
    /\ last.why = EmptyUndo
    /\ ~isLocked /\ undoStack = <<>> /\ redoStack # <<>>

\* C9: after executed commands C1..Cn and k successful undos, with nothing
\* else in between, the observable state of the collaborator equals the
\* state right after C1..C(n-k).
C9_UndoRestoresState ==
    (hist.phase = "undo" /\ Idle) =>
        Obs(graphics) = hist.snaps[Len(undoStack) + 1]

\* C10: execute(C), undo(), redo() leaves the collaborator's observable
\* state as it was right after execute(C).
C10_RoundTrip ==
    rt.stage = "redone" => Obs(graphics) = rt.snap

\* C11: the stacks change only in the step that completes a successful
\* forward/inverse action and unlocks the invoker (explicit clearUndoStack /
\* clearRedoStack calls aside), and only completion unlocks.
C11_StacksChangeOnlyOnCompletion ==
    /\ [][((undoStack' # undoStack \/ redoStack' # redoStack)
            /\ last'.op \in ApiOps) =>
            /\ last'.ev = "settled" /\ last'.out \in {"pending", "resolved"}
            /\ isLocked /\ ~isLocked']_vars
    /\ [][(isLocked /\ ~isLocked') => last'.ev = "settled"]_vars

\* C12: an accepted execute/undo/redo locks the idle invoker; the callbacks
\* of a settled action, resolved or rejected, unlock it, and a call made
\* right after is not rejected as locked; an action in flight whose promise
\* settles leads to an unlocked invoker.
C12_BusyThenIdle ==
    /\ [][\A op \in ApiOps :
            (Called(op) /\ last'.out = "accepted") =>
                ~isLocked /\ isLocked' /\ inflight' # {}]_vars
    /\ [][last'.ev = "settled" => isLocked /\ ~isLocked' /\ inflight' = {}]_vars
    /\ [][\A op \in ApiOps :
            (last.ev = "settled" /\ Called(op)) => ~(Locked \subseteq last'.why)]_vars
    /\ (inflight # {}) ~> (~isLocked /\ inflight = {})

\* a rejected inverse action has settled and the invoker is idle again
C12_Witness ==
    /\ last.ev = "settled" /\ last.op = "undo" /\ last.out = "rejected"
    /\ ~isLocked /\ inflight = {}

\* C13: as long as an accepted action has not settled the invoker is
\* locked, every execute/undo/redo is rejected with the lock message and
\* leaves both stacks as they are; nothing but settlement unlocks.
C13_StuckActionKeepsLock ==
    /\ [](inflight # {} => isLocked)
    /\ [][\A op \in ApiOps :
            (Called(op) /\ inflight # {}) =>
                /\ last'.out = "rejected" /\ Locked \subseteq last'.why
                /\ undoStack' = undoStack /\ redoStack' = redoStack
                /\ isLocked' /\ inflight' = inflight]_vars
    /\ [][(isLocked /\ ~isLocked') => inflight' # inflight]_vars

C13_Witness ==
    /\ Cardinality(inflight) = 1
    /\ last.ev = "call" /\ last.op = "redo" /\ last.out = "rejected"
    /\ last.why = EmptyRedo \cup Locked
    /\ redoStack # <<>> /\ undoStack # <<>>

\* C14: undo() taking the last command of undoStack (invoker unlocked)
\* fires undoStackChanged with length 0 before the inverse action is even
\* called; redo() taking the last redo entry fires redoStackChanged with
\* length 0 before the forward action is called.
C14_EagerEmptyNotification ==
    /\ [][(Called("undo") /\ ~isLocked /\ Len(undoStack) = 1) =>
            /\ trace'[1] = Ev("undoStackChanged", 0)
            /\ Pos(trace', "inverse") > 1
            /\ undoStack' = <<>>
            /\ last'.out = "accepted" => inflight' # {}]_vars
    /\ [][(Called("redo") /\ ~isLocked /\ Len(redoStack) = 1) =>
            /\ trace'[1] = Ev("redoStackChanged", 0)
            /\ Pos(trace', "forward") > 1
            /\ redoStack' = <<>>
            /\ last'.out = "accepted" => inflight' # {}]_vars

C14_Witness ==
    /\ last.ev = "call" /\ last.op = "redo" /\ last.out = "accepted"
    /\ trace[1] = Ev("redoStackChanged", 0)
    /\ redoStack = <<>> /\ inflight # {}

\* what a listener takes the length to be
Heard(n) == IF n = NotReported THEN 0 ELSE n

\* C15: whenever the invoker is idle the length last announced for each
\* stack is the stack's length.
C15_AnnouncedLengths ==
    Idle => /\ Heard(reported.undo) = Len(undoStack)
            /\ Heard(reported.redo) = Len(redoStack)

\* C16: in every state the length last announced for a stack is 0 (or none
\* was announced) exactly when the stack is empty.
C16_EmptinessReported ==
    /\ (Heard(reported.undo) = 0) <=> (undoStack = <<>>)
    /\ (Heard(reported.redo) = 0) <=> (redoStack = <<>>)

\* the inverse of the only command failed: 0 was announced, the stack is empty
C16_Witness ==
    /\ last.ev = "settled" /\ last.op = "undo" /\ last.out = "rejected"
    /\ undoStack = <<>> /\ reported.undo = 0
    /\ redoStack # <<>> /\ reported.redo > 0

CalledForward(name) ==
    /\ last'.ev = "call"
    /\ last'.op \in {"execute", "redo"}
    /\ last'.out = "accepted"
    /\ cmds'[last'.cmd].name = name

\* The step just taken called the inverse action of a command named name.
CalledInverse(name) ==
    /\ Called("undo")
    /\ last'.out = "accepted"
    /\ cmds'[last'.cmd].name = name

\* The promise of a command named name has just been rejected.
Failed(name, op) ==
    /\ last'.ev = "settled"
    /\ last'.op = op
    /\ last'.out = "rejected"
    /\ cmds[last'.cmd].name = name

\* C18: the forward action of addObject adds the object and resolves only
\* when the object is not in the store; otherwise it fails with AlreadyAdded
\* and the store is unchanged.  The inverse removes the object and resolves
\* only when it is present; otherwise it fails with NotFound.
C18_AddObjectGuards ==
    /\ [][CalledForward("addObject") =>
            LET c == last'.cmd
                object == cmds'[c].args[1]
            IN  IF contains(graphics, object)
                THEN /\ cmds'[c].res.out = "reject"
                     /\ Obs(graphics') = Obs(graphics)
                ELSE /\ cmds'[c].res.out = "resolve"
                     /\ graphics'.canvas = Append(graphics.canvas, object)]_vars
    /\ [][CalledInverse("addObject") =>
            LET c == last'.cmd
                object == cmds'[c].args[1]
            IN  IF contains(graphics, object)
                THEN /\ cmds'[c].res.out = "resolve"
                     /\ graphics'.canvas = RemoveFirst(graphics.canvas, object)
                ELSE /\ cmds'[c].res.out = "reject"
                     /\ Obs(graphics') = Obs(graphics)]_vars
    /\ [][\A op \in {"execute", "redo"} :
            Failed("addObject", op) => last'.why = AlreadyAdded]_vars
    /\ [][Failed("addObject", "undo") => last'.why = NotFound]_vars

\* The objects removeObjectById(id) can take off the canvas: the children of
\* a non-empty group that are on the canvas, or the object itself.
Removable(g, id) ==
    LET target == getObject(g, id) IN
    IF target = 0 THEN <<>>
    ELSE IF g.members[target] # <<>>
    THEN SelectSeq(g.members[target], LAMBDA o : contains(g, o))
    ELSE <<target>>

\* C19: removeObject on a non-empty group removes each child individually
\* and records exactly those children; its undo re-adds exactly the recorded
\* objects as individual objects; and when the target resolves to no
\* removable object the forward action fails with NotFound, removes nothing,
\* and the command is not recorded on the undo stack.
C19_RemoveObjectGroup ==
    /\ [][CalledForward("removeObject") =>
            LET c == last'.cmd
                id == cmds'[c].args[1]
                gone == Removable(graphics, id)
            IN  /\ cmds'[c].undoData.objects = gone
                /\ graphics'.canvas = RemoveEach(graphics.canvas, gone)
                /\ graphics'.members = graphics.members
                /\ gone = <<>> =>
                      /\ cmds'[c].res.out = "reject"
                      /\ cmds'[c].res.why = NotFound
                      /\ graphics' = graphics]_vars
    /\ [][CalledInverse("removeObject") =>
            LET c == last'.cmd IN
            /\ graphics'.canvas = graphics.canvas \o cmds[c].undoData.objects
            /\ graphics'.members = graphics.members]_vars
    /\ [][\A op \in {"execute", "redo"} :
            Failed("removeObject", op) =>
               /\ last'.why = NotFound
               /\ undoStack' = undoStack
               /\ ~InSeq(last'.cmd, undoStack')]_vars

C21_ClearObjects ==
    /\ [][CalledForward("clearObjects") =>
            LET c == last'.cmd IN
            /\ cmds'[c].undoData.objects = graphics.canvas
            /\ graphics'.canvas = <<>>
            /\ graphics'.canvasImage = graphics.canvasImage
            /\ graphics'.imageName = graphics.imageName
            /\ graphics.canvas = <<>> => cmds'[c].res.out = "reject"]_vars
    /\ [][(last'.ev = "settled" /\ last'.op \in {"execute", "redo"}
              /\ cmds[last'.cmd].name = "clearObjects"
              /\ cmds[last'.cmd].undoData.objects = <<>>) =>
            /\ last'.out = "rejected"
            /\ undoStack' = undoStack]_vars
    /\ [][CalledInverse("clearObjects") =>
            graphics'.canvas =
                graphics.canvas \o cmds[last'.cmd].undoData.objects]_vars

\* The outcomes of an action that fails: it throws, its promise is rejected,
\* or the image it waits for does not load.
Failing == {"throw", "reject", "loadFail"}

\* C22: whenever a forward or inverse action fails, the observable state of
\* the collaborator (objects, background image, image name) is the state
\* before the action started: neither the call of an action that fails nor
\* the rejection of its promise changes it.  In particular a loadImage whose
\* image cannot be loaded leaves the prior objects and image in place.
C22_FailureLeavesState ==
    /\ [][(last'.ev = "call" /\ last'.op \in ApiOps
              /\ last'.out \in {"accepted", "thrown"}
              /\ cmds'[last'.cmd].res.out \in Failing) =>
            Obs(graphics') = Obs(graphics)]_vars
    /\ [][(last'.ev = "settled" /\ last'.out = "rejected") =>
            Obs(graphics') = Obs(graphics)]_vars

\* Two angles that describe the same rotation of the image.
SameAngle(a, b) == (a - b) % 360 = 0

\* C23: a rotate / setAngle command that would leave the image angle
\* unchanged (setAngle to the current angle, rotate by a multiple of 360) is
\* rejected with NoChange and is not pushed on the undo stack.
C23_NoChangeRejected ==
    /\ [][CalledForward("rotate") =>
            LET c == last'.cmd
                type == cmds'[c].args[1]
                angle == cmds'[c].args[2]
                current == graphics.canvasImage.angle
                target == IF type = "rotate" THEN current + angle ELSE angle
            IN  SameAngle(target, current) =>
                  /\ cmds'[c].res.out = "reject"
                  /\ cmds'[c].res.why = NoChange]_vars
    /\ [][(last'.ev = "settled" /\ last'.op \in {"execute", "redo"}
              /\ cmds[last'.cmd].name = "rotate"
              /\ SameAngle(graphics.canvasImage.angle,
                           cmds[last'.cmd].undoData.angle)) =>
            /\ last'.out = "rejected"
            /\ last'.why = NoChange
            /\ undoStack' = undoStack]_vars

\* C24: the undo of a flip or rotate command restores exactly the absolute
\* {flipX, flipY} setting or angle captured by the forward run, and after
\* any number of undo(); redo() cycles of the command the image has the
\* setting and angle it had after the single original execute.
C24_AbsoluteRestore ==
    /\ [][CalledInverse("rotate") =>
            graphics'.canvasImage.angle = cmds[last'.cmd].undoData.angle]_vars
    /\ [][CalledInverse("flip") =>
            getCurrentSetting(graphics') = cmds[last'.cmd].undoData.setting]_vars
    /\ [][(CalledForward("rotate") /\ cmds'[last'.cmd].res.out = "resolve") =>
            cmds'[last'.cmd].undoData.angle = graphics.canvasImage.angle]_vars
    /\ [][(CalledForward("flip") /\ cmds'[last'.cmd].res.out = "resolve") =>
            cmds'[last'.cmd].undoData.setting = getCurrentSetting(graphics)]_vars
    /\ []((Idle /\ rt.stage \in {"executed", "redone"}
              /\ cmds[rt.cmd].name \in {"rotate", "flip"}) =>
            graphics.canvasImage = rt.snap.canvasImage)

\* a flip of a rotated image, undone and redone
C24_Witness ==
    /\ Idle
    /\ rt.stage = "redone"
    /\ cmds[rt.cmd].name = "flip"
    /\ graphics.canvasImage.angle # 0
    /\ getCurrentSetting(graphics) # cmds[rt.cmd].undoData.setting

\* The factory was asked for a command named name in the step just taken.
Created(name) == \E i \in 1..Len(trace') : trace'[i] = Ev("create", name)

\* C25: execute with a command name that is not registered fails in create,
\* before the invoker locks: afterwards the invoker is idle, both stacks are
\* unchanged, and a following execute of a registered command is accepted.
C25_UnregisteredName ==
    /\ [][(Called("execute") /\ Created("notRegistered")) =>
            /\ last'.out = "notCreated"
            /\ ~Fired(trace', "lock") /\ ~Fired(trace', "forward")
            /\ ~isLocked' /\ inflight' = {}
            /\ undoStack' = undoStack /\ redoStack' = redoStack
            /\ cmds' = cmds]_vars
    /\ [][(last.out = "notCreated" /\ Called("execute")
              /\ Created("testCommand")) =>
            /\ last'.out \in {"accepted", "thrown"}
            /\ Fired(trace', "forward")]_vars

\* execute of the unregistered name has just failed, with commands on both
\* stacks
C25_Witness ==
    /\ last.ev = "call" /\ last.op = "execute" /\ last.out = "notCreated"
    /\ trace = <<Ev("create", "notRegistered")>>
    /\ ~isLocked
    /\ Len(undoStack) > 0 /\ Len(redoStack) > 0

\* The arguments the action called in the step just taken received.
Received(tr, e) == tr[Pos(tr, e) + 1].n

\* C26: the arguments given to execute are captured in the command at
\* creation, never change afterwards, and are passed identical and in the
\* same order to the forward action on execute and on every redo and to the
\* inverse action on every undo.
C26_ArgsReplayed ==
    /\ [][\A c \in 1..Len(cmds) : cmds'[c].args = cmds[c].args]_vars
    /\ [][Fired(trace', "forward") =>
            /\ last'.op \in {"execute", "redo"}
            /\ Received(trace', "forward") = cmds'[last'.cmd].args]_vars
    /\ [][Fired(trace', "inverse") =>
            /\ last'.op = "undo"
            /\ Received(trace', "inverse") = cmds'[last'.cmd].args]_vars
    /\ [][\A op \in ApiOps :
            (Called(op) /\ last'.out \in {"accepted", "thrown"}) =>
               Fired(trace', IF op = "undo" THEN "inverse" ELSE "forward")]_vars

\* the second command, created with (1, 2, 3), is redone after the first,
\* created with (3, 2, 1)
C26_Witness ==
    /\ last.ev = "call" /\ last.op = "redo" /\ last.cmd = 2
    /\ cmds[1].args = <<3, 2, 1>>
    /\ cmds[2].args = <<1, 2, 3>>
    /\ Fired(trace, "forward")
    /\ Received(trace, "forward") = <<1, 2, 3>>

\* C27: after loadImage has executed, the object list saved in that
\* command's undo data never contains a cropzone object, even when a
\* cropzone was on the canvas when the image was loaded.
C27_NoCropzoneSaved ==
    \A c \in 1..Len(cmds) :
        cmds[c].name = "loadImage" =>
            \A i \in 1..Len(cmds[c].undoData.objects) :
                ~isCropzone(graphics, cmds[c].undoData.objects[i])

\* C28: no command is lost by a failed undo or redo.  When the inverse
\* action of undo() fails the command is on undoStack again, when the
\* forward action of redo() fails it is on redoStack again, and every undo
\* or redo, whatever its outcome, ends with the command it took (popped at
\* the call) back on one of the two stacks.
C28_NoCommandLost ==
    /\ [][(last'.ev = "settled" /\ last'.op = "undo"
              /\ last'.out = "rejected") =>
            /\ InSeq(last'.cmd, undoStack')
            /\ redoStack' = redoStack]_vars
    /\ [][(last'.ev = "settled" /\ last'.op = "redo"
              /\ last'.out = "rejected") =>
            /\ InSeq(last'.cmd, redoStack')
            /\ undoStack' = undoStack]_vars
    /\ [][(last'.ev = "settled" /\ last'.op \in {"undo", "redo"}) =>
            Len(undoStack') + Len(redoStack') =
                Len(undoStack) + Len(redoStack) + 1]_vars

\* The forward action of an execute has just succeeded: the invoker has
\* unlocked and called onExecuted, the promise returned by execute has not
\* resolved yet.  The redo stack still holds what it held when the execute
\* was accepted, unless it was cleared meanwhile.
ExecuteJustSucceeded ==
    last.ev = "settled" /\ last.op = "execute" /\ last.out = "pending"

\* C29: no command that was on the redo stack when an execute was accepted
\* can be re-executed by redo() once that execute has succeeded: a redo()
\* issued from the command's onExecuted callback, or from a promise callback
\* that runs after the unlock and before execute's promise resolves, fails
\* with EmptyRedo and invokes nothing.
C29_NoStaleRedo ==
    [][(ExecuteJustSucceeded /\ Called("redo")) =>
          /\ last'.out = "rejected"
          /\ EmptyRedo \subseteq last'.why
          /\ ~Fired(trace', "forward")
          /\ inflight' = inflight]_vars

\* C30: whenever a command is put on undoStack as new history, by a
\* successful execute or by the editor recording an object created outside
\* the invoker (pushUndoStack on the 'addObject' event), the redo stack is
\* empty afterwards, so redo cannot replay a command undone before that
\* recording.
C30_NewHistoryClearsRedo ==
    /\ [][last'.op = "pushAddObjectCommand" => redoStack' = <<>>]_vars
    /\ [][(last'.ev = "resolved" /\ last'.op = "execute") =>
            redoStack' = <<>>]_vars
    /\ [][(last.op = "pushAddObjectCommand" /\ Called("redo")) =>
            last'.out = "rejected"]_vars

\* C31: an action that throws synchronously is handled like one that
\* returns a rejected promise.  After a call of execute, undo or redo whose
\* action threw, the invoker is unlocked, so later calls are accepted, and
\* the command an undo or redo took from its stack is still in history.
C31_ThrowReturnsToIdle ==
    /\ [][last'.out = "thrown" => ~isLocked']_vars
    /\ [][(last'.out = "thrown" /\ last'.op \in {"undo", "redo"}) =>
            \/ InSeq(last'.cmd, undoStack')
            \/ InSeq(last'.cmd, redoStack')]_vars
    /\ [][(last.out = "thrown" /\ inflight = {} /\ Called("execute")) =>
            ~(Locked \subseteq last'.why)]_vars

\* C32: k successful undos immediately followed by k redos.  In a history
\* of successful executes, then undos, then redos, every redo succeeds, and
\* when the redos have emptied the redo stack the collaborator is in the
\* state it had before the first undo, whether or not a later command
\* addresses by id an object that an earlier one created.
C32_UndosThenRedos ==
    /\ [][(hist.phase = "redo" /\ last'.ev = "settled" /\ last'.op = "redo")
            => last'.out = "resolved"]_vars
    /\ [][(hist'.phase = "redo" /\ Idle' /\ redoStack' = <<>>) =>
            Obs(graphics') = hist'.snaps[Len(hist'.snaps)]]_vars

\* C33: changeIconColor followed by undo restores the icon's previous
\* color.  When the undo of a changeIconColor command has resolved, the
\* object the forward run changed has the fill it had before that run.
C33_IconColorRestored ==
    [][(last'.ev = "settled" /\ last'.op = "undo" /\ last'.out = "resolved"
          /\ cmds[last'.cmd].name = "changeIconColor") =>
        getColor(graphics', cmds[last'.cmd].undoData.object) =
            cmds[last'.cmd].undoData.color]_vars

\* Commands that change one object found by the id they are given.
ById == {"setObjectProperties", "changeText", "changeTextStyle"}

\* C34: setObjectProperties, changeText and changeTextStyle executed with an
\* id that does not resolve to a live object are rejected with NotFound
\* before any mutation: the call changes no object, its promise is rejected
\* with 'The object is not in canvas.', nothing is pushed on undoStack and
\* the redo stack is not cleared.
C34_NotFoundBeforeMutation ==
    /\ [][(\E name \in ById : CalledForward(name) /\ last'.op = "execute"
              /\ ~InSeq(cmds'[last'.cmd].args[1], graphics.canvas)) =>
            /\ cmds'[last'.cmd].res.out = "reject"
            /\ cmds'[last'.cmd].res.why = NotFound
            /\ graphics' = graphics
            /\ undoStack' = undoStack /\ redoStack' = redoStack]_vars
    /\ [][(\E name \in ById : Failed(name, "execute")) =>
            /\ last'.why = NotFound
            /\ graphics' = graphics
            /\ undoStack' = undoStack /\ redoStack' = redoStack
            /\ postQ' = postQ /\ ~isLocked']_vars

C34_Witness ==
    /\ last.ev = "settled" /\ last.op = "execute" /\ last.out = "rejected"
    /\ last.why = NotFound
    /\ cmds[last.cmd].name = "changeTextStyle"
    /\ undoStack # <<>> /\ redoStack # <<>>
    /\ \E c \in 1..Len(cmds) : cmds[c].name = "changeText"

\* C35: removeActiveObject on an active group of n objects issues the n
\* removeObject commands strictly one after another.  With no other
\* operation in progress every execute of the removal is issued when the
\* invoker is idle and the previous one has resolved, none is rejected as
\* Locked, and when the removal has finished exactly n removeObject commands
\* have been added on top of the undo stack, one for each object of the
\* group.
C35_RemoveSequential ==
    /\ [][(last'.op = "execute" /\ last'.ev = "call"
              /\ (editor.waiting # 0 \/ editor'.waiting # 0)) =>
            /\ last'.out = "accepted"
            /\ ~isLocked /\ inflight = {} /\ postQ = <<>>
            /\ editor.waiting # 0 =>
                  (last.ev = "resolved" /\ last.cmd = editor.waiting)]_vars
    /\ [][(editor.group # <<>> /\ last'.ev = "settled") =>
            ~(Locked \subseteq last'.why)]_vars
    /\ [][(editor.waiting # 0 /\ editor'.waiting = 0) =>
            LET n == Len(editor.group) IN
            /\ Len(undoStack') = editor.before + n
            /\ \A i \in 1..n :
                 LET command == cmds[undoStack'[editor.before + i]] IN
                 /\ command.name = "removeObject"
                 /\ command.args = <<editor.group[n + 1 - i]>>
            /\ \A i \in 1..n : ~contains(graphics', editor.group[i])]_vars

C35_Witness ==
    /\ last.op = "removeObjectStream"
    /\ Len(undoStack) = MaxCmds
    /\ \A i \in 1..Len(undoStack) : cmds[undoStack[i]].name = "removeObject"
    /\ Len(graphics.canvas) = MaxObjs - MaxCmds

\* r is the remainder of a divided by 360 that keeps the sign of a.
IsRemainder(r, a) ==
    /\ (a - r) % 360 = 0
    /\ -360 < r /\ r < 360
    /\ (a >= 0 => r >= 0) /\ (a <= 0 => r <= 0)

\* C36: setAngle(a) sets the image angle to a % 360 and rotate(d) sets it to
\* (current + d) % 360, the remainder keeping the sign of the dividend, so
\* the image angle is always strictly between -360 and 360; setAngle(5)
\* followed by rotate(-95) gives -90 and setAngle(10) followed by rotate(10)
\* gives 20.  Both calls resolve with the angle they have set.
C36_AngleRemainder ==
    /\ [][last'.op = "setAngle" =>
            /\ IsRemainder(getCurrentAngle(graphics'), trace'[1].n[1])
            /\ last'.val = getCurrentAngle(graphics')]_vars
    /\ [][last'.op = "rotate" =>
            /\ IsRemainder(getCurrentAngle(graphics'),
                           getCurrentAngle(graphics) + trace'[1].n[1])
            /\ last'.val = getCurrentAngle(graphics')]_vars
    /\ [][(last.op = "setAngle" /\ trace[1].n = <<5>>
              /\ last'.op = "rotate" /\ trace'[1].n = <<-95>>) =>
            getCurrentAngle(graphics') = -90]_vars
    /\ [][(last.op = "setAngle" /\ trace[1].n = <<10>>
              /\ last'.op = "rotate" /\ trace'[1].n = <<10>>) =>
            getCurrentAngle(graphics') = 20]_vars
    /\ [](-360 < getCurrentAngle(graphics) /\ getCurrentAngle(graphics) < 360)

C36_Witness ==
    /\ last.op = "rotate" /\ trace[1].n = <<-95>>
    /\ getCurrentAngle(graphics) = -90
    /\ \E o \in ObjIds : graphics.props[o].angle < 0

\* The argument of the call just made.
Arg == trace'[1].n[1]

\* C37: Graphics has exactly one current drawing mode.  startDrawingMode(m)
\* for a registered mode m other than the current one first ends the current
\* mode if it is not NORMAL, then starts m and makes it current;
\* startDrawingMode(m) for the current mode changes nothing and returns
\* true; stopDrawingMode always leaves the mode NORMAL.  Hence the only mode
\* started and not ended is the current one, and no mode is started while
\* another is.
C37_OneDrawingMode ==
    /\ [](graphics.started = {graphics.drawingMode} \ {"NORMAL"})
    /\ [][(last'.op = "startDrawingMode" /\ Arg \in drawingModeMap
              /\ Arg # graphics.drawingMode) =>
            /\ Tail(trace') =
                 (IF graphics.drawingMode = "NORMAL" THEN <<>>
                  ELSE <<Ev("end", graphics.drawingMode)>>)
                 \o <<Ev("start", Arg)>>
            /\ graphics'.drawingMode = Arg
            /\ last'.val = "true"]_vars
    /\ [][(last'.op = "startDrawingMode" /\ Arg = graphics.drawingMode) =>
            /\ graphics' = graphics
            /\ Tail(trace') = <<>>
            /\ last'.val = "true"]_vars
    /\ [][last'.op = "stopDrawingMode" =>
            /\ graphics'.drawingMode = "NORMAL"
            /\ Tail(trace') = (IF graphics.drawingMode = "NORMAL" THEN <<>>
                               ELSE <<Ev("end", graphics.drawingMode)>>)]_vars
    /\ [][Fired(trace', "start") =>
            (graphics.started = {} \/ Fired(trace', "end"))]_vars

C37_Witness ==
    /\ last.op = "startDrawingMode"
    /\ trace = <<Ev("args", <<"TEXT">>), Ev("end", "CROPPER"), Ev("start", "TEXT")>>
    /\ graphics.drawingMode = "TEXT"
    /\ graphics.cropperCropzone = 0

\* The objects of the canvas other than the cropzone.
Plain(g) == {o \in ObjIds : InSeq(o, g.canvas)}

C38_EndAllEndsEverything ==
    /\ [][last'.op = "endAll" =>
            editor'.state = "NORMAL" /\ editor'.started = {}]_vars
    /\ [][(Called("undo") \/ Called("redo")) =>
            editor'.state = "NORMAL" /\ editor'.started = {}]_vars

====
